---- MODULE Spec2Model ----
(***************************************************************************)
(* State-machine model of the tarot GameEngine (src/constants.ts, class    *)
(* GameEngine): gesture stabilizer, interaction state machine, deck and    *)
(* history bookkeeping, and the confirmed-card safety resolver.            *)
(*                                                                         *)
(* Lengths are fixed-point integers in hundredths of a scene unit          *)
(* (8.5 -> 850); times are integer milliseconds as returned by Date.now(). *)
(* Handlers are operators from an engine record to an engine record, so a  *)
(* handler that calls other handlers is one atomic action.                 *)
(***************************************************************************)
EXTENDS Integers, Sequences, FiniteSets, TLC

----------------------------------------------------------------------------
(* Program constants *)

MAX_DRAW_PER_SESSION == 3
BUFFER_SIZE == 4
PINCH_REQUIRED_HOLD == 80
FIST_REQUIRED_HOLD == 40
GESTURE_COOLDOWN == 50
DISINTEGRATE_DELAY == 2500
\* in hundredths
PINCH_THRESHOLD == 22
\* AudioSystem: volumes in hundredths
MAX_VOLUME == 50
FadeStep == 5
SOURCES == << "github", "relative", "root", "mixkit", "soundhelix" >>
MAX_PUSH == 40
LERP_PERCENT == 12
PREVIEW_CAPTURE == 350
HORIZON_BAND == 200
GRAB_DEPTH == 1200

\* safetyConfig
baseConfirmDistance == 850
yOffset == 20
safetyMargin == 450
nearMargin == 80
pushOutStep == 10

ringRadius == 1200
ringCenterZ == 2200
previewAnchor == <<0, 0, 1150>>

\* the camera as the constructor and setupScene leave it
cameraNear == 10
cameraPosition == <<0, 0, 1800>>
cameraForward == <<0, 0, -1>>
cameraUp == <<0, 1, 0>>

\* card identities of TAROT_DECK, in source order
TAROT_DECK ==
    << 0, 1, 2, 3, 4, 5, 6, 7, 8, 9, 10, 11, 12, 13, 14, 15, 16, 17, 18, 19,
       20, 21, 22, 23, 35, 36, 49, 50, 63, 64, 77 >>

GameState == {"IDLE", "READY", "GRABBING", "PREVIEW", "CONFIRMED", "DISINTEGRATING"}
InputMode == {"HANDS", "MOUSE"}
Gesture == {"NONE", "OPEN", "PINCH", "FIST", "POINT"}

----------------------------------------------------------------------------
(* Bounds of the model *)

\* largest value of the clock `now`
ClockMax == 121
\* period of the requestAnimationFrame loop, in ms
FrameMs == 16
\* the pointer ray reaches only the first MaxHit cards of the ring
MaxHit == 1
\* Math.random() streams tried by shuffleDeck
MaxSeed == 0
\* image references the art service answers with
MaxUrl == 2
\* cards drawn in a session with the detail modal
MaxArtDraws == 1
\* loads of one audio source that are told apart
MaxLoads == 2

NoCard == -1
\* a card without generatedImageUrl; image references are 1, 2, ...
NoUrl == 0
NoMesh == <<>>
NoRing == << NoCard >>
NoLandmarks == <<>>

----------------------------------------------------------------------------
VARIABLES
    state, inputMode, currentGesture, gestureBuffer, gestureCooldown,
    pinchStartTime, fistStartTime,
    deck, history, sessionDrawnCount,
    currentCardMesh, cardRing, particles,
    targetPosition, isReversed, activeCardData, mouse, debugInfo,
    timers, now, phase, hands, splash,
    \* artwork: generatedImageUrl of each card, the card of the detail modal,
    \* the modal's elements and the art service calls awaited
    art, currentDetailCard, currentDetailReversed, dom, artCalls,
    \* which object currentDetailCard refers to
    currentDetailObject,
    \* observation of the last step, not program state
    ev, notified, rawLast, rawAt, pinchRun, fistRun, lastChangeAt, rs,
    \* multiHandLandmarks[0] of the latest frame that came with landmarks
    landmarks,
    \* the AudioSystem with its audio element, and whether the music button
    \* shows the playing icon
    audio, musicBtn

vars ==
    << state, inputMode, currentGesture, gestureBuffer, gestureCooldown,
       pinchStartTime, fistStartTime, deck, history, sessionDrawnCount,
       currentCardMesh, cardRing, particles, targetPosition, isReversed,
       activeCardData, mouse, debugInfo, timers, now, phase, hands, splash,
       art, currentDetailCard, currentDetailReversed, dom, artCalls,
       currentDetailObject,
       ev, notified, rawLast, rawAt, pinchRun, fistRun, lastChangeAt, rs,
       landmarks, audio, musicBtn >>

\* the engine as one record, with the observations cleared for the new step
Cur ==
    [ state |-> state, inputMode |-> inputMode, currentGesture |-> currentGesture,
      gestureBuffer |-> gestureBuffer, gestureCooldown |-> gestureCooldown,
      pinchStartTime |-> pinchStartTime, fistStartTime |-> fistStartTime,
      deck |-> deck, history |-> history, sessionDrawnCount |-> sessionDrawnCount,
      currentCardMesh |-> currentCardMesh, cardRing |-> cardRing,
      particles |-> particles, targetPosition |-> targetPosition,
      isReversed |-> isReversed, activeCardData |-> activeCardData,
      mouse |-> mouse, debugInfo |-> debugInfo, timers |-> timers, now |-> now,
      phase |-> phase, hands |-> hands, splash |-> splash,
      art |-> art, currentDetailCard |-> currentDetailCard,
      currentDetailReversed |-> currentDetailReversed, dom |-> dom,
      artCalls |-> artCalls, currentDetailObject |-> currentDetailObject,
      ev |-> {}, notified |-> {}, rawLast |-> rawLast, rawAt |-> rawAt,
      pinchRun |-> pinchRun, fistRun |-> fistRun, lastChangeAt |-> lastChangeAt,
      rs |-> rs, landmarks |-> landmarks, audio |-> audio, musicBtn |-> musicBtn ]

Commit(e) ==
    /\ state' = e.state
    /\ inputMode' = e.inputMode
    /\ currentGesture' = e.currentGesture
    /\ gestureBuffer' = e.gestureBuffer
    /\ gestureCooldown' = e.gestureCooldown
    /\ pinchStartTime' = e.pinchStartTime
    /\ fistStartTime' = e.fistStartTime
    /\ deck' = e.deck
    /\ history' = e.history
    /\ sessionDrawnCount' = e.sessionDrawnCount
    /\ currentCardMesh' = e.currentCardMesh
    /\ cardRing' = e.cardRing
    /\ particles' = e.particles
    /\ targetPosition' = e.targetPosition
    /\ isReversed' = e.isReversed
    /\ activeCardData' = e.activeCardData
    /\ mouse' = e.mouse
    /\ debugInfo' = e.debugInfo
    /\ timers' = e.timers
    /\ now' = e.now
    /\ phase' = e.phase
    /\ hands' = e.hands
    /\ splash' = e.splash
    /\ art' = e.art
    /\ currentDetailCard' = e.currentDetailCard
    /\ currentDetailReversed' = e.currentDetailReversed
    /\ dom' = e.dom
    /\ artCalls' = e.artCalls
    /\ currentDetailObject' = e.currentDetailObject
    /\ ev' = e.ev
    /\ notified' = e.notified
    /\ rawLast' = e.rawLast
    /\ rawAt' = e.rawAt
    /\ pinchRun' = e.pinchRun
    /\ fistRun' = e.fistRun
    /\ lastChangeAt' = e.lastChangeAt
    /\ rs' = e.rs
    /\ landmarks' = e.landmarks
    /\ audio' = e.audio
    /\ musicBtn' = e.musicBtn

----------------------------------------------------------------------------
(* Arithmetic and vector helpers (THREE.Vector3 on fixed-point integers) *)

Abs(x) == IF x < 0 THEN -x ELSE x

\* x * pct / 100 truncated toward zero
Scale(x, pct) == IF x >= 0 THEN (x * pct) \div 100 ELSE -(((-x) * pct) \div 100)

VAdd(a, b) == << a[1] + b[1], a[2] + b[2], a[3] + b[3] >>

VScale(a, k) == << a[1] * k, a[2] * k, a[3] * k >>

DistSq(a, b) ==
    (a[1] - b[1]) * (a[1] - b[1]) + (a[2] - b[2]) * (a[2] - b[2])
        + (a[3] - b[3]) * (a[3] - b[3])

\* Vector3.lerp(target, alpha): this += (target - this) * alpha
VLerp(p, t, pct) ==
    << p[1] + Scale(t[1] - p[1], pct), p[2] + Scale(t[2] - p[2], pct),
       p[3] + Scale(t[3] - p[3], pct) >>

Range(s) == { s[i] : i \in 1..Len(s) }

----------------------------------------------------------------------------
(* shuffleDeck: Fisher-Yates, the random index taken from stream `seed` *)

\* Math.floor(Math.random() * (i + 1)) for loop index i, a value in 0..i
RandomIndex(seed, i) == (seed * i) % (i + 1)

Swap(s, a, b) == [s EXCEPT ![a] = s[b], ![b] = s[a]]

RECURSIVE FisherYates(_, _, _)
FisherYates(d, seed, i) ==
    IF i <= 0 THEN d
    ELSE FisherYates(Swap(d, i + 1, RandomIndex(seed, i) + 1), seed, i - 1)

shuffleDeck(e, seed) ==
    [e EXCEPT !.deck = FisherYates(e.deck, seed, Len(e.deck) - 1)]

----------------------------------------------------------------------------
(* Gesture stabilizer *)

Count(buf, g) == Cardinality({ i \in 1..Len(buf) : buf[i] = g })

\* Object.keys(counts): the labels of the buffer in order of first occurrence
RECURSIVE Keys(_)
Keys(buf) ==
    IF buf = <<>> THEN <<>>
    ELSE LET init == Keys(SubSeq(buf, 1, Len(buf) - 1))
             last == buf[Len(buf)]
         IN IF last \in Range(init) THEN init ELSE Append(init, last)

\* keys.reduce((a, b) => counts[a] > counts[b] ? a : b), no initial value
RECURSIVE ReduceKeys(_, _, _)
ReduceKeys(buf, a, rest) ==
    IF rest = <<>> THEN a
    ELSE ReduceKeys(buf,
                    IF Count(buf, a) > Count(buf, Head(rest)) THEN a ELSE Head(rest),
                    Tail(rest))

\* getStableGesture that passes the newest raw label through
getStableGestureLatest(buf) == buf[Len(buf)]

getStableGesture(buf) == ReduceKeys(buf, Head(Keys(buf)), Tail(Keys(buf)))

----------------------------------------------------------------------------
(* Safety placement resolver.  A resolver frame holds the viewer pose it   *)
(* was called with and the locals of resolveConfirmedSafety.               *)

checkIntersectionWithCarousel(pos) ==
    LET dsq == DistSq(pos, <<0, 0, ringCenterZ>>)
        lo == ringRadius - safetyMargin
        hi == ringRadius + safetyMargin
        \* |sqrt(dsq) - ringRadius| < safetyMargin
        isNearArc == lo * lo < dsq /\ dsq < hi * hi
        isNearHorizon == Abs(pos[2]) < HORIZON_BAND
    IN isNearArc /\ isNearHorizon

ResolveStart(camPos, near, camForward, camUp) ==
    [ pc |-> "loop", camPos |-> camPos, near |-> near,
      camForward |-> camForward, camUp |-> camUp,
      dist |-> baseConfirmDistance, pos |-> <<0, 0, 0>>, pushCount |-> 0,
      intersected |-> TRUE, passes |-> 0 ]

\* the while condition with the cap off by one
LoopContinuesOneMore(r) == r.intersected /\ r.pushCount <= MAX_PUSH

\* the while condition
LoopContinues(r) == r.intersected /\ r.pushCount < MAX_PUSH

\* a pass that pushes whenever the floor is not reached, hit or not
ResolvePassAlwaysPush(r) ==
    LET pos == VAdd(VAdd(r.camPos, VScale(r.camForward, r.dist)),
                    VScale(r.camUp, yOffset))
        hit == checkIntersectionWithCarousel(pos)
        minSafeDist == r.near + nearMargin
        clamp == r.dist <= minSafeDist
        dist1 == IF clamp THEN minSafeDist ELSE r.dist
        int1 == IF clamp THEN FALSE ELSE hit
    IN [r EXCEPT !.pos = pos,
                 !.intersected = int1,
                 !.dist = IF clamp THEN dist1 ELSE dist1 - pushOutStep,
                 !.pushCount = IF clamp THEN r.pushCount ELSE r.pushCount + 1,
                 !.passes = r.passes + 1]

\* one pass of the while body
ResolvePass(r) ==
    LET pos == VAdd(VAdd(r.camPos, VScale(r.camForward, r.dist)),
                    VScale(r.camUp, yOffset))
        hit == checkIntersectionWithCarousel(pos)
        minSafeDist == r.near + nearMargin
        clamp == r.dist <= minSafeDist
        dist1 == IF clamp THEN minSafeDist ELSE r.dist
        int1 == IF clamp THEN FALSE ELSE hit
    IN [r EXCEPT !.pos = pos,
                 !.intersected = int1,
                 !.dist = IF int1 THEN dist1 - pushOutStep ELSE dist1,
                 !.pushCount = IF int1 THEN r.pushCount + 1 ELSE r.pushCount,
                 !.passes = r.passes + 1]

RECURSIVE ResolveRun(_)
ResolveRun(r) == IF LoopContinues(r) THEN ResolveRun(ResolvePass(r)) ELSE r

\* the assignments after the loop
ResolveReturn(e, r) ==
    [e EXCEPT !.targetPosition = r.pos,
              !.debugInfo = [intersected |-> r.intersected,
                             pushCount |-> r.pushCount,
                             actualDist |-> r.dist]]

\* the loop run for the engine's own camera, which the program never moves
EngineResolve ==
    ResolveRun(ResolveStart(cameraPosition, cameraNear, cameraForward, cameraUp))

resolveConfirmedSafety(e, camForward, camUp) ==
    LET r == IF camForward = cameraForward /\ camUp = cameraUp
             THEN EngineResolve
             ELSE ResolveRun(ResolveStart(cameraPosition, cameraNear,
                                          camForward, camUp))
        e1 == ResolveReturn(e, r)
    IN [e1 EXCEPT !.ev = @ \cup {"resolveConfirmedSafety"}]

----------------------------------------------------------------------------
(* Interaction state machine.  The card objects of TAROT_DECK are shared   *)
(* by the deck, the ring and activeCardData, so their generatedImageUrl is *)
(* one value per card, kept in `art` for the cards that have one.  A       *)
(* history entry holds a copy of the card ({ ...activeCardData }) with its *)
(* own generatedImageUrl, the field url of the entry.                      *)

Note(e, tag) == [e EXCEPT !.ev = @ \cup {tag}]

generatedImageUrl(e, card) ==
    IF card \in DOMAIN e.art THEN e.art[card] ELSE NoUrl

SetUrl(a, card, url) ==
    [c \in DOMAIN a \cup {card} |-> IF c = card THEN url ELSE a[c]]

\* history = []: the copy currentDetailCard may refer to is no longer an
\* entry of the history; it keeps its generatedImageUrl
DetachSnapshot(e) ==
    IF e.currentDetailObject.kind = "snapshot"
    THEN [e EXCEPT !.currentDetailObject =
                      [kind |-> "detached",
                       url |-> (CHOOSE h \in Range(e.history) :
                                   h.id = e.currentDetailCard).url]]
    ELSE e

\* observation: a rendering or UI routine runs; the snapshot is what it can
\* see of the state machine's data at that moment
Notify(e, observer) ==
    [e EXCEPT !.notified = @ \cup
        {[observer |-> observer, state |-> e.state, deck |-> e.deck,
          activeCardData |-> e.activeCardData,
          sessionDrawnCount |-> e.sessionDrawnCount]}]

\* the state, then the hint text
setState(e, s) == Notify([e EXCEPT !.state = s], "hint")

createCardRing(e) == Notify([e EXCEPT !.cardRing = e.deck], "cardRing")

createCardMesh(e) == Notify([e EXCEPT !.currentCardMesh = <<0, 0, 0>>], "cardMesh")

updateDeckCount(e) == Notify(e, "deckCount")

updateHistoryUI(e) == Notify(e, "historyList")

showReadingUI(e) ==
    IF e.activeCardData # NoCard THEN Notify(e, "readingPanel") ELSE e

\* resetDeck that reshuffles the cards left instead of the full list
resetDeckNoRestore(e, seed) ==
    LET e1 == shuffleDeck(e, seed)
        e2 == [DetachSnapshot(e1) EXCEPT !.history = <<>>, !.sessionDrawnCount = 0]
        e3 == [createCardRing(e2) EXCEPT !.currentCardMesh = NoMesh]
    IN Note(updateHistoryUI(updateDeckCount(setState(e3, "READY"))), "resetDeck")

\* resetDeck that leaves the drawn count as it is
resetDeckKeepCount(e, seed) ==
    LET e1 == shuffleDeck([e EXCEPT !.deck = TAROT_DECK], seed)
        e2 == [DetachSnapshot(e1) EXCEPT !.history = <<>>]
        e3 == [createCardRing(e2) EXCEPT !.currentCardMesh = NoMesh]
    IN Note(updateHistoryUI(updateDeckCount(setState(e3, "READY"))), "resetDeck")

\* resetDeck that leaves the history as it is
resetDeckKeepHistory(e, seed) ==
    LET e1 == shuffleDeck([e EXCEPT !.deck = TAROT_DECK], seed)
        e2 == [e1 EXCEPT !.sessionDrawnCount = 0]
        e3 == [createCardRing(e2) EXCEPT !.currentCardMesh = NoMesh]
    IN Note(updateHistoryUI(updateDeckCount(setState(e3, "READY"))), "resetDeck")

\* resetDeck that leaves the state as it is
resetDeckKeepState(e, seed) ==
    LET e1 == shuffleDeck([e EXCEPT !.deck = TAROT_DECK], seed)
        e2 == [DetachSnapshot(e1) EXCEPT !.history = <<>>, !.sessionDrawnCount = 0]
        e3 == [createCardRing(e2) EXCEPT !.currentCardMesh = NoMesh]
    IN Note(updateHistoryUI(updateDeckCount(e3)), "resetDeck")

resetDeck(e, seed) ==
    LET e1 == shuffleDeck([e EXCEPT !.deck = TAROT_DECK], seed)
        e2 == [DetachSnapshot(e1) EXCEPT !.history = <<>>, !.sessionDrawnCount = 0]
        e3 == [createCardRing(e2) EXCEPT !.currentCardMesh = NoMesh]
    IN Note(updateHistoryUI(updateDeckCount(setState(e3, "READY"))), "resetDeck")

\* tryGrab that leaves the drawn card in the deck
tryGrabKeepDeck(e, hit, rev) ==
    IF e.sessionDrawnCount >= MAX_DRAW_PER_SESSION THEN e
    ELSE IF hit = 0 THEN e
    ELSE LET cardData == e.cardRing[hit]
             e1 == [e EXCEPT !.activeCardData = cardData, !.isReversed = rev]
             e2 == createCardMesh(createCardRing(e1))
         IN Note(updateDeckCount(setState(e2, "GRABBING")), "tryGrab")

\* tryGrab without the session limit
tryGrabNoLimit(e, hit, rev) ==
    IF hit = 0 THEN e
    ELSE LET cardData == e.cardRing[hit]
             e1 == [e EXCEPT !.activeCardData = cardData,
                             !.isReversed = rev,
                             !.deck = SelectSeq(e.deck, LAMBDA c : c # cardData)]
             e2 == createCardMesh(createCardRing(e1))
         IN Note(updateDeckCount(setState(e2, "GRABBING")), "tryGrab")

\* hit: index of the ring card the pointer ray meets first, 0 for none
tryGrab(e, hit, rev) ==
    IF e.sessionDrawnCount >= MAX_DRAW_PER_SESSION THEN e
    ELSE IF hit = 0 THEN e
    ELSE LET cardData == e.cardRing[hit]
             e1 == [e EXCEPT !.activeCardData = cardData,
                             !.isReversed = rev,
                             !.deck = SelectSeq(e.deck, LAMBDA c : c # cardData)]
             e2 == createCardMesh(createCardRing(e1))
         IN Note(updateDeckCount(setState(e2, "GRABBING")), "tryGrab")

\* confirmCard that records nothing
confirmCardNoHistory(e) ==
    Note(setState([e EXCEPT !.sessionDrawnCount = @ + 1], "CONFIRMED"),
         "confirmCard")

\* confirmCard that turns the card over as it records it
confirmCardFlip(e) ==
    LET e1 == [e EXCEPT !.sessionDrawnCount = @ + 1, !.isReversed = ~@]
        e2 == showReadingUI(setState(e1, "CONFIRMED"))
    IN IF e.activeCardData = NoCard
       THEN Note(e2, "TypeError")
       ELSE Note(updateDeckCount(updateHistoryUI([e2 EXCEPT !.history =
                      << [id |-> e.activeCardData, isReversed |-> e1.isReversed,
                          timestamp |-> e.now,
                          url |-> generatedImageUrl(e, e.activeCardData)] >>
                      \o @])),
                 "confirmCard")

\* confirmCard that puts the new entry behind the older ones
confirmCardPush(e) ==
    LET e1 == [e EXCEPT !.sessionDrawnCount = @ + 1]
        e2 == showReadingUI(setState(e1, "CONFIRMED"))
    IN IF e.activeCardData = NoCard
       THEN Note(e2, "TypeError")
       ELSE Note(updateDeckCount(updateHistoryUI([e2 EXCEPT !.history =
                      Append(@, [id |-> e.activeCardData, isReversed |-> e.isReversed,
                                 timestamp |-> e.now,
                                 url |-> generatedImageUrl(e, e.activeCardData)])])),
                 "confirmCard")

confirmCard(e) ==
    LET e1 == [e EXCEPT !.sessionDrawnCount = @ + 1]
        e2 == showReadingUI(setState(e1, "CONFIRMED"))
    IN IF e.activeCardData = NoCard
       THEN Note(e2, "TypeError")
       ELSE Note(updateDeckCount(updateHistoryUI([e2 EXCEPT !.history =
                      << [id |-> e.activeCardData, isReversed |-> e.isReversed,
                          timestamp |-> e.now,
                          url |-> generatedImageUrl(e, e.activeCardData)] >>
                      \o @])),
                 "confirmCard")

\* triggerDisintegrate that schedules no callback
triggerDisintegrateNoTimer(e) ==
    IF e.state # "CONFIRMED" THEN e
    ELSE LET e1 == setState(e, "DISINTEGRATING")
         IN Note([e1 EXCEPT !.particles = TRUE,
                            !.currentCardMesh = NoMesh],
                 "triggerDisintegrate")

triggerDisintegrate(e) ==
    IF e.state # "CONFIRMED" THEN e
    ELSE LET e1 == setState(e, "DISINTEGRATING")
         IN Note([e1 EXCEPT !.particles = TRUE,
                            !.currentCardMesh = NoMesh,
                            !.timers = Append(@, e.now + DISINTEGRATE_DELAY)],
                 "triggerDisintegrate")

\* the setTimeout callback of triggerDisintegrate
disintegrateTimeout(e) ==
    Note(setState([e EXCEPT !.particles = FALSE], "READY"), "timeout")

\* onGestureEnter that tries a grab on any gesture entered in READY
onGestureEnterGrabAny(e, gesture, hit, rev, seed) ==
    LET e0 == Note(e, "enter")
    IN IF e.state = "READY" THEN tryGrab(e0, hit, rev)
       ELSE IF gesture = "FIST"
            THEN IF e.state = "PREVIEW" THEN confirmCard(e0)
                 ELSE IF e.state = "CONFIRMED" THEN triggerDisintegrate(e0)
                 ELSE e0
       ELSE e0

\* onGestureEnter that resets only beyond the quota
onGestureEnterResetLate(e, gesture, hit, rev, seed) ==
    LET e0 == Note(e, "enter")
    IN IF gesture = "PINCH" /\ e.state = "READY" THEN tryGrab(e0, hit, rev)
       ELSE IF gesture = "FIST"
            THEN IF e.state = "PREVIEW" THEN confirmCard(e0)
                 ELSE IF e.state = "CONFIRMED" THEN triggerDisintegrate(e0)
                 ELSE IF e.state = "READY"
                         /\ e.sessionDrawnCount > MAX_DRAW_PER_SESSION
                      THEN resetDeck(e0, seed)
                 ELSE e0
       ELSE e0

\* onGestureEnter that confirms on FIST while the card is still grabbed
onGestureEnterConfirmEarly(e, gesture, hit, rev, seed) ==
    LET e0 == Note(e, "enter")
    IN IF gesture = "PINCH" /\ e.state = "READY" THEN tryGrab(e0, hit, rev)
       ELSE IF gesture = "FIST"
            THEN IF e.state \in {"PREVIEW", "GRABBING"} THEN confirmCard(e0)
                 ELSE IF e.state = "CONFIRMED" THEN triggerDisintegrate(e0)
                 ELSE IF e.state = "READY"
                         /\ e.sessionDrawnCount >= MAX_DRAW_PER_SESSION
                      THEN resetDeck(e0, seed)
                 ELSE e0
       ELSE e0

onGestureEnter(e, gesture, hit, rev, seed) ==
    LET e0 == Note(e, "enter")
    IN IF gesture = "PINCH" /\ e.state = "READY" THEN tryGrab(e0, hit, rev)
       ELSE IF gesture = "FIST"
            THEN IF e.state = "PREVIEW" THEN confirmCard(e0)
                 ELSE IF e.state = "CONFIRMED" THEN triggerDisintegrate(e0)
                 ELSE IF e.state = "READY"
                         /\ e.sessionDrawnCount >= MAX_DRAW_PER_SESSION
                      THEN resetDeck(e0, seed)
                 ELSE e0
       ELSE e0

onGestureHold(e, gesture) ==
    LET e0 == Note(e, "hold")
    IN IF gesture = "PINCH" /\ e.state = "GRABBING"
       THEN [e0 EXCEPT !.targetPosition =
                          << e.mouse[1] * 6, e.mouse[2] * 5, GRAB_DEPTH >>]
       ELSE e0

\* the hold verification of one timed gesture: the start time after the
\* update, and whether the required hold has not yet elapsed
\* a hold timer started again at every update
HoldStartAgain(gesture, timed, startTime, t) ==
    IF gesture = timed THEN t ELSE 0

HoldStart(gesture, timed, startTime, t) ==
    IF gesture = timed THEN (IF startTime = 0 THEN t ELSE startTime) ELSE 0

HoldPending(gesture, timed, startTime, t, required) ==
    gesture = timed /\ t - HoldStart(gesture, timed, startTime, t) < required

\* the guard of the transition block
ChangeAccepted(e, processedGesture) ==
    e.currentGesture # processedGesture /\ e.now > e.gestureCooldown

\* no cooldown after a change
CooldownNone(t) == t

CooldownUntil(t) == t + GESTURE_COOLDOWN

\* handleGestureUpdate that fires the enter event on every update
handleGestureUpdateEnterAlways(e, gesture, hit, rev, seed) ==
    LET t == e.now
        afterPinch ==
            IF HoldPending(gesture, "PINCH", e.pinchStartTime, t, PINCH_REQUIRED_HOLD)
            THEN (IF e.currentGesture = "PINCH" THEN "PINCH" ELSE "NONE")
            ELSE gesture
        processedGesture ==
            IF HoldPending(gesture, "FIST", e.fistStartTime, t, FIST_REQUIRED_HOLD)
            THEN (IF e.currentGesture = "FIST" THEN "FIST" ELSE "NONE")
            ELSE afterPinch
        e1 == [Note(e, "update") EXCEPT
                 !.pinchStartTime = HoldStart(gesture, "PINCH", @, t),
                 !.fistStartTime = HoldStart(gesture, "FIST", @, t)]
        e2 == IF e1.now > e1.gestureCooldown
              THEN [onGestureEnter([e1 EXCEPT !.currentGesture = processedGesture,
                                              !.lastChangeAt = t],
                                   processedGesture, hit, rev, seed)
                        EXCEPT !.gestureCooldown = CooldownUntil(t)]
              ELSE e1
    IN onGestureHold(e2, e2.currentGesture)

handleGestureUpdate(e, gesture, hit, rev, seed) ==
    LET t == e.now
        afterPinch ==
            IF HoldPending(gesture, "PINCH", e.pinchStartTime, t, PINCH_REQUIRED_HOLD)
            THEN (IF e.currentGesture = "PINCH" THEN "PINCH" ELSE "NONE")
            ELSE gesture
        processedGesture ==
            IF HoldPending(gesture, "FIST", e.fistStartTime, t, FIST_REQUIRED_HOLD)
            THEN (IF e.currentGesture = "FIST" THEN "FIST" ELSE "NONE")
            ELSE afterPinch
        e1 == [Note(e, "update") EXCEPT
                 !.pinchStartTime = HoldStart(gesture, "PINCH", @, t),
                 !.fistStartTime = HoldStart(gesture, "FIST", @, t)]
        e2 == IF ChangeAccepted(e1, processedGesture)
              THEN [onGestureEnter([e1 EXCEPT !.currentGesture = processedGesture,
                                              !.lastChangeAt = t],
                                   processedGesture, hit, rev, seed)
                        EXCEPT !.gestureCooldown = CooldownUntil(t)]
              ELSE e1
    IN onGestureHold(e2, e2.currentGesture)

\* observation: the duration, first frame to last frame, of the latest
\* maximal run of raw label `timed`, which `raw` extends, starts or leaves
\* alone; a duration is counted up to `required`, the hold it is compared with
ObserveRun(run, timed, raw, last, gap, required) ==
    IF raw # timed THEN run
    ELSE IF last = timed
         THEN (IF run + gap > required THEN required ELSE run + gap)
    ELSE 0

ObserveRaw(e, raw) ==
    [e EXCEPT !.rawLast = raw,
              !.rawAt = e.now,
              !.pinchRun = ObserveRun(@, "PINCH", raw, e.rawLast, e.now - e.rawAt,
                                      PINCH_REQUIRED_HOLD),
              !.fistRun = ObserveRun(@, "FIST", raw, e.rawLast, e.now - e.rawAt,
                                     FIST_REQUIRED_HOLD)]

\* detectGestureRaw.  A landmark is a point << x, y >> in thousandths of the
\* image; distances are compared by their squares.
PlanarSq(p, q) == (p[1] - q[1]) * (p[1] - q[1]) + (p[2] - q[2]) * (p[2] - q[2])

\* getDist(p1) with the default p2 = wrist, squared
WristSq(lm, i) == PlanarSq(lm[i], lm[0])

isFingerFolded(lm, tip, mcp) == WristSq(lm, tip) < WristSq(lm, mcp)

\* getDist(tip) > getDist(pip) * 1.05, with 1.05 * 1.05 = 441 / 400
isFingerExtended(lm, tipIdx) == WristSq(lm, tipIdx) * 400 > WristSq(lm, tipIdx - 2) * 441

FoldedOthers(lm) ==
    Cardinality({ f \in {<<12, 9>>, <<16, 13>>, <<20, 17>>} : isFingerFolded(lm, f[1], f[2]) })

extendedFingers(lm) == Cardinality({ t \in {8, 12, 16, 20} : isFingerExtended(lm, t) })

\* PINCH_THRESHOLD squared, in thousandths
PinchSq == (PINCH_THRESHOLD * 10) * (PINCH_THRESHOLD * 10)

\* detectGestureRaw without the index guard on PINCH
detectGestureRawNoGuard(lm) ==
    IF isFingerFolded(lm, 8, 5) /\ FoldedOthers(lm) >= 2 THEN "FIST"
    ELSE IF PlanarSq(lm[4], lm[8]) < PinchSq THEN "PINCH"
    ELSE IF extendedFingers(lm) >= 3 THEN "OPEN"
    ELSE "NONE"

detectGestureRaw(lm) ==
    LET indexFolded == isFingerFolded(lm, 8, 5)
    IN IF indexFolded /\ FoldedOthers(lm) >= 2 THEN "FIST"
       ELSE IF PlanarSq(lm[4], lm[8]) < PinchSq /\ ~indexFolded THEN "PINCH"
       ELSE IF extendedFingers(lm) >= 3 THEN "OPEN"
       ELSE "NONE"

\* the pointer taken from the wrist landmark, in hundredths
WristPointer(lm) == << -((lm[0][1] * 2 - 1000) \div 10), -((lm[0][2] * 2 - 1000) \div 10) >>

PushBuffer(buf, raw) ==
    LET pushed == Append(buf, raw)
    IN IF Len(pushed) > BUFFER_SIZE THEN Tail(pushed) ELSE pushed

\* processHandResults without the check of the input mode
processHandResultsAnyMode(e, raw, ptr, hit, rev, seed) ==
    LET e1 == [ObserveRaw(e, raw) EXCEPT
                   !.gestureBuffer = PushBuffer(@, raw)]
        e2 == handleGestureUpdate(e1, getStableGesture(e1.gestureBuffer),
                                  hit, rev, seed)
    IN [e2 EXCEPT !.mouse = ptr]

\* a vision callback with one hand: raw is detectGestureRaw(landmarks),
\* ptr the pointer derived from the wrist landmark
processHandResults(e, raw, ptr, hit, rev, seed) ==
    IF e.inputMode # "HANDS" THEN e
    ELSE LET e1 == [ObserveRaw(e, raw) EXCEPT
                        !.gestureBuffer = PushBuffer(@, raw)]
             e2 == handleGestureUpdate(e1, getStableGesture(e1.gestureBuffer),
                                       hit, rev, seed)
         IN [e2 EXCEPT !.mouse = ptr]

\* a vision callback whose first hand has the landmarks lm
processLandmarks(e, lm, hit, rev, seed) ==
    IF e.inputMode # "HANDS" THEN e
    ELSE [processHandResults(e, detectGestureRaw(lm), WristPointer(lm), hit, rev, seed)
             EXCEPT !.landmarks = lm]

\* a vision callback with no hand detected
\* processHandResults that classifies a missing hand as a raw NONE label
processNoHandBuffered(e, hit, rev, seed) ==
    IF e.inputMode # "HANDS" THEN e
    ELSE Note(processHandResults(e, "NONE", e.mouse, hit, rev, seed), "noHand")

processNoHand(e, hit, rev, seed) ==
    IF e.inputMode # "HANDS" THEN e
    ELSE Note(handleGestureUpdate(ObserveRaw(e, "NONE"), "NONE", hit, rev, seed),
              "noHand")

----------------------------------------------------------------------------
(* Detail modal and artwork.  An awaited call keeps the card it was made   *)
(* for and, for an edit, the button text saved before.  dom.editPrompt     *)
(* tells whether the prompt input holds text.                              *)

\* the index of the first history entry of card `id`, 0 if there is none
HistoryIndex(h, id) ==
    IF \E i \in 1..Len(h) : h[i].id = id
    THEN CHOOSE i \in 1..Len(h) :
            h[i].id = id /\ \A j \in 1..(i - 1) : h[j].id # id
    ELSE 0

\* currentDetailCard.generatedImageUrl
DetailUrl(e) ==
    IF e.currentDetailObject.kind = "card"
    THEN generatedImageUrl(e, e.currentDetailCard)
    ELSE IF e.currentDetailObject.kind = "snapshot"
    THEN e.history[HistoryIndex(e.history, e.currentDetailCard)].url
    ELSE e.currentDetailObject.url

\* currentDetailCard.generatedImageUrl = url
SetDetailUrl(e, url) ==
    IF e.currentDetailObject.kind = "card"
    THEN [e EXCEPT !.art = SetUrl(@, e.currentDetailCard, url)]
    ELSE IF e.currentDetailObject.kind = "snapshot"
    THEN [e EXCEPT !.history[HistoryIndex(e.history, e.currentDetailCard)].url = url]
    ELSE [e EXCEPT !.currentDetailObject.url = url]

\* data: the card's id and which object it is, the card of TAROT_DECK
\* ("card") or the copy a history entry holds ("snapshot")
showDetailModal(e, data, reversed) ==
    LET e1 == [e EXCEPT !.currentDetailCard = data.id,
                        !.currentDetailObject = [kind |-> data.kind, url |-> NoUrl],
                        !.currentDetailReversed = reversed]
    IN [e1 EXCEPT !.dom = [@ EXCEPT !.modalImg = DetailUrl(e1),
                                    !.manifestHidden = DetailUrl(e1) # NoUrl,
                                    !.editHidden = DetailUrl(e1) = NoUrl,
                                    !.modal = TRUE]]

showCurrentCardDetail(e) ==
    IF e.activeCardData # NoCard
    THEN Note(showDetailModal(e, [id |-> e.activeCardData, kind |-> "card"],
                              e.isReversed),
              "showCurrentCardDetail")
    ELSE e

\* index counts from 1 here, from 0 in the source
showHistoryItemDetail(e, index) ==
    IF index \in 1..Len(e.history)
    THEN showDetailModal(e, [id |-> e.history[index].id, kind |-> "snapshot"],
                         e.history[index].isReversed)
    ELSE e

\* updateCardImage that leaves the card's own reference alone
updateCardImageShownOnly(e, url) ==
    IF e.currentDetailCard = NoCard THEN e
    ELSE [e EXCEPT !.dom.modalImg = url]

updateCardImage(e, url) ==
    IF e.currentDetailCard = NoCard THEN e
    ELSE LET e1 == [SetDetailUrl(e, url) EXCEPT !.dom.modalImg = url]
             e2 == IF e1.activeCardData # NoCard
                      /\ e1.activeCardData = e1.currentDetailCard
                   THEN createCardMesh(
                            [e1 EXCEPT !.art = SetUrl(@, e1.activeCardData, url)])
                   ELSE e1
             hist == HistoryIndex(e2.history, e2.currentDetailCard)
         IN IF hist # 0 THEN [e2 EXCEPT !.history[hist].url = url] ELSE e2

\* manifestActiveCard up to its await
manifestActiveCard(e) ==
    IF e.currentDetailCard = NoCard THEN e
    ELSE [e EXCEPT !.dom.manifestBtn = [disabled |-> TRUE, text |-> "busy"],
                   !.artCalls = @ \cup
                       {[kind |-> "generate", card |-> e.currentDetailCard,
                         originalText |-> ""]}]

\* manifestActiveCard after the await, generateCardArt having answered url
manifestResolved(e, url) ==
    LET e1 == updateCardImage(e, url)
    IN Note([e1 EXCEPT !.dom.manifestHidden = TRUE,
                       !.dom.editHidden = FALSE,
                       !.dom.manifestBtn.disabled = FALSE],
            "manifestResolved")

\* a catch block that falls back to a placeholder image
manifestRejectedStores(e) ==
    Note([updateCardImage(e, MaxUrl) EXCEPT
              !.dom.manifestBtn = [disabled |-> FALSE, text |-> "retry"]],
         "manifestRejected")

\* manifestActiveCard after the await, generateCardArt having rejected
manifestRejected(e) ==
    Note([e EXCEPT !.dom.manifestBtn = [disabled |-> FALSE, text |-> "retry"]],
         "manifestRejected")

\* editActiveCard up to its await
editActiveCard(e) ==
    IF e.currentDetailCard = NoCard THEN e
    ELSE IF DetailUrl(e) = NoUrl THEN e
    ELSE IF ~e.dom.editPrompt THEN e
    ELSE [e EXCEPT !.dom.editBtn = [disabled |-> TRUE, text |-> "..."],
                   !.artCalls = @ \cup
                       {[kind |-> "edit", card |-> e.currentDetailCard,
                         originalText |-> e.dom.editBtn.text]}]

\* editActiveCard after the await, editCardArt having answered url
editResolved(e, call, url) ==
    LET e1 == updateCardImage(e, url)
    IN Note([e1 EXCEPT !.dom.editPrompt = FALSE,
                       !.dom.editBtn = [disabled |-> FALSE,
                                        text |-> call.originalText]],
            "editResolved")

\* editActiveCard after the await, editCardArt having rejected
editRejected(e, call) ==
    Note([e EXCEPT !.dom.editBtn = [disabled |-> FALSE,
                                    text |-> call.originalText]],
         "editRejected")

onPointerMove(e, ptr) ==
    IF e.inputMode = "MOUSE" THEN [e EXCEPT !.mouse = ptr] ELSE e

\* button 0 is the left button, 2 the right; onCard: the pointer ray meets
\* the current card mesh
onMouseDown(e, button, onCard, hit, rev, seed) ==
    IF e.inputMode # "MOUSE" THEN e
    ELSE IF button = 0
    THEN IF e.state \in {"CONFIRMED", "PREVIEW"} /\ e.currentCardMesh = NoMesh
         THEN Note(e, "TypeError")
         ELSE IF e.state \in {"CONFIRMED", "PREVIEW"} /\ onCard
         THEN showCurrentCardDetail(e)
         ELSE handleGestureUpdate(ObserveRaw(e, "PINCH"), "PINCH", hit, rev, seed)
    ELSE IF button = 2
    THEN handleGestureUpdate(ObserveRaw(e, "FIST"), "FIST", hit, rev, seed)
    ELSE e

onMouseUp(e, hit, rev, seed) ==
    IF e.inputMode = "MOUSE"
    THEN handleGestureUpdate(ObserveRaw(e, "NONE"), "NONE", hit, rev, seed)
    ELSE e

updateCardTransform(e) ==
    IF e.currentCardMesh = NoMesh THEN e
    ELSE LET e1 ==
                 IF e.state = "GRABBING"
                 THEN IF DistSq(e.currentCardMesh, previewAnchor)
                            < PREVIEW_CAPTURE * PREVIEW_CAPTURE
                      THEN setState(e, "PREVIEW")
                      ELSE e
                 ELSE IF e.state = "PREVIEW"
                 THEN [e EXCEPT !.targetPosition = previewAnchor]
                 ELSE IF e.state = "CONFIRMED"
                 THEN resolveConfirmedSafety(e, cameraForward, cameraUp)
                 ELSE e
         IN [e1 EXCEPT !.currentCardMesh =
                           VLerp(@, e1.targetPosition, LERP_PERCENT)]

animate(e) == updateCardTransform(e)

----------------------------------------------------------------------------
(* AudioSystem.  The audio element is its paused flag, its volume, the     *)
(* index of the source in src and the state of that source's load;         *)
(* playAwaited tells that start() waits for the promise of play(), and     *)
(* loads counts, per source, the loads started.                            *)

NoFade == [on |-> FALSE, target |-> 0, step |-> 0, stops |-> FALSE]

\* index is 0-based, as in the source
loadSource(e, index) ==
    IF index >= Len(SOURCES) THEN e
    ELSE [e EXCEPT !.audio.src = index,
                   !.audio.network = "loading",
                   !.audio.loads[index + 1] = IF @ < MaxLoads THEN @ + 1 ELSE @]

\* the AudioSystem after its constructor
initAudio ==
    [ isPlaying |-> FALSE, paused |-> TRUE, volume |-> 0, fadeInterval |-> NoFade,
      playAwaited |-> FALSE, currentSourceIndex |-> 0, src |-> 0,
      network |-> "loading", loads |-> [i \in 1..Len(SOURCES) |-> IF i = 1 THEN 1 ELSE 0] ]

\* handleLoadError that tries the same source again
handleLoadErrorRetry(e) ==
    LET e1 == loadSource([e EXCEPT !.audio.network = "failed"], e.audio.currentSourceIndex)
    IN IF e.audio.isPlaying THEN [e1 EXCEPT !.audio.paused = FALSE] ELSE e1

\* the listener of the element's error event
handleLoadError(e) ==
    LET e1 == [e EXCEPT !.audio.network = "failed", !.audio.currentSourceIndex = @ + 1]
    IN IF e1.audio.currentSourceIndex < Len(SOURCES)
       THEN LET e2 == loadSource(e1, e1.audio.currentSourceIndex)
            IN IF e.audio.isPlaying THEN [e2 EXCEPT !.audio.paused = FALSE] ELSE e2
       ELSE e1

\* stops: the fade was given the callback of stop()
fade(e, targetVolume, stops) ==
    [e EXCEPT !.audio.fadeInterval =
        [on |-> TRUE, target |-> targetVolume,
         step |-> IF targetVolume > e.audio.volume THEN FadeStep ELSE -FadeStep,
         stops |-> stops]]

\* one callback of the fade interval
fadeTick(e) ==
    LET f == e.audio.fadeInterval
        nextVolume == e.audio.volume + f.step
        isFinished == \/ f.step > 0 /\ nextVolume >= f.target
                      \/ f.step < 0 /\ nextVolume <= f.target
    IN IF isFinished
       THEN LET e1 == [e EXCEPT !.audio.volume = f.target, !.audio.fadeInterval = NoFade]
            IN IF f.stops
               THEN [e1 EXCEPT !.audio.paused = TRUE, !.audio.isPlaying = FALSE]
               ELSE e1
       ELSE [e EXCEPT !.audio.volume =
                IF nextVolume < 0 THEN 0 ELSE IF nextVolume > 100 THEN 100 ELSE nextVolume]

\* start() up to its await
start(e) ==
    [e EXCEPT !.audio.isPlaying = TRUE, !.audio.paused = FALSE, !.audio.playAwaited = TRUE]

\* start() after the promise of play() resolved
playResolved(e) == fade([e EXCEPT !.audio.playAwaited = FALSE], MAX_VOLUME, FALSE)

\* start() after the promise of play() rejected
playRejected(e) ==
    [e EXCEPT !.audio.playAwaited = FALSE, !.audio.isPlaying = FALSE]

stop(e) == fade(e, 0, TRUE)

toggle(e) == IF e.audio.isPlaying THEN stop(e) ELSE start(e)

\* the button shows what toggle() returned, this.isPlaying after the call
toggleMusic(e) ==
    LET e1 == toggle(e)
    IN [e1 EXCEPT !.musicBtn = e1.audio.isPlaying]

\* unlock(), its play() settled: the element is paused again unless playing
unlock(e) == IF e.audio.isPlaying THEN e ELSE [e EXCEPT !.audio.paused = TRUE]

\* unlockAudio of the splash buttons
unlockAudio(e) ==
    LET e1 == unlock(e)
    IN IF ~e1.audio.isPlaying THEN toggleMusic(e1) ELSE e1

----------------------------------------------------------------------------
(* Initial state: the engine as its field initializers and constructor     *)
(* leave it, before init() runs.                                           *)

ResolveIdle ==
    [ResolveStart(cameraPosition, cameraNear, cameraForward, cameraUp)
        EXCEPT !.pc = "idle"]

InitEngine ==
    /\ state = "IDLE"
    /\ inputMode = "HANDS"
    /\ currentGesture = "NONE"
    /\ gestureBuffer = <<>>
    /\ gestureCooldown = 0
    /\ pinchStartTime = 0
    /\ fistStartTime = 0
    /\ deck = TAROT_DECK
    /\ history = <<>>
    /\ sessionDrawnCount = 0
    /\ currentCardMesh = NoMesh
    /\ cardRing = NoRing
    /\ particles = FALSE
    /\ targetPosition = <<0, 0, 0>>
    /\ isReversed = FALSE
    /\ activeCardData = NoCard
    /\ mouse = <<0, 0>>
    /\ debugInfo = [intersected |-> FALSE, pushCount |-> 0, actualDist |-> 0]
    /\ timers = <<>>
    /\ now = 1
    /\ phase = "new"
    /\ hands = FALSE
    /\ splash = "shown"
    /\ art = [c \in {} |-> NoUrl]
    /\ currentDetailCard = NoCard
    /\ currentDetailReversed = FALSE
    /\ dom = [ modal |-> FALSE, modalImg |-> NoUrl,
               manifestHidden |-> TRUE, editHidden |-> TRUE,
               manifestBtn |-> [disabled |-> FALSE, text |-> "manifest"],
               editBtn |-> [disabled |-> FALSE, text |-> "edit"],
               editPrompt |-> FALSE ]
    /\ artCalls = {}
    /\ currentDetailObject = [kind |-> "none", url |-> NoUrl]
    /\ ev = {}
    /\ notified = {}
    /\ rawLast = "NONE"
    /\ rawAt = 0
    /\ pinchRun = 0
    /\ fistRun = 0
    /\ lastChangeAt = 0
    /\ landmarks = NoLandmarks
    /\ audio = initAudio
    /\ musicBtn = FALSE

Init == InitEngine /\ rs = ResolveIdle

----------------------------------------------------------------------------
(* Inputs *)

Seeds == 0..MaxSeed

\* what the raycaster and Math.random() may answer during one handler: the
\* ring card hit (0: none), the orientation coin and the shuffle stream.
\* They are consulted only by tryGrab and resetDeck, both called from READY.
Oracles ==
    IF state = "READY" /\ cardRing # NoRing
    THEN [hit : { h \in 0..MaxHit : h <= Len(cardRing) }, rev : BOOLEAN, seed : Seeds]
    ELSE [hit : {0}, rev : {FALSE}, seed : {0}]

----------------------------------------------------------------------------
(* Actions *)

\* init() up to the await of generateAssets
InitStart ==
    /\ phase = "new"
    /\ \E seed \in Seeds :
          Commit([shuffleDeck(Cur, seed) EXCEPT !.phase = "loading"])

\* init() after the await: ring, listeners, animation loop, READY
InitFinish ==
    /\ phase = "loading"
    /\ Commit([setState(createCardRing(Cur), "READY") EXCEPT !.phase = "running"])

\* window.resetDeck()
ResetDeck ==
    \E seed \in Seeds : Commit(resetDeck(Cur, seed))

\* splash button "camera": initHandTracking succeeded
ClickCamera ==
    /\ phase = "running"
    /\ splash # "hidden"
    /\ Commit([unlockAudio(Cur) EXCEPT !.hands = TRUE, !.inputMode = "HANDS",
                                       !.splash = "fading"])

\* splash button "mouse"
ClickMouse ==
    /\ phase = "running"
    /\ splash # "hidden"
    /\ Commit([unlockAudio(Cur) EXCEPT !.inputMode = "MOUSE", !.splash = "fading"])

\* the 800 ms timeout of hideSplash
SplashHidden ==
    /\ splash = "fading"
    /\ Commit([Cur EXCEPT !.splash = "hidden"])

\* a result of the vision pipeline with one hand; the results of one camera
\* come at different milliseconds
HandFrame(Labels, Ptrs) ==
    /\ hands
    /\ rawAt # now
    /\ \E raw \in Labels, ptr \in Ptrs, o \in Oracles :
          Commit(processHandResults(Cur, raw, ptr, o.hit, o.rev, o.seed))

\* a hand frame of a user who draws MaxArtDraws cards and then keeps the
\* pointer off the ring
ArtHandFrame ==
    /\ hands
    /\ rawAt # now
    /\ \E raw \in {"PINCH", "FIST"}, o \in Oracles :
          /\ sessionDrawnCount >= MaxArtDraws => o.hit = 0
          /\ Commit(processHandResults(Cur, raw, <<0, 0>>, o.hit, o.rev, o.seed))

\* the labels of a user who draws one card after another: a pinch to take
\* a card and carry it to the preview, a fist to confirm it, a pinch to
\* open the hand again and a second fist to dismiss the card
DrawingLabels ==
    IF state \in {"READY", "GRABBING", "DISINTEGRATING"} THEN {"PINCH"}
    ELSE IF state = "PREVIEW" THEN {"FIST"}
    ELSE IF currentGesture = "FIST" /\ "enter" \notin ev THEN {"PINCH"}
    ELSE {"FIST"}

DrawingHandFrame ==
    /\ hands
    /\ rawAt # now
    /\ \E raw \in DrawingLabels, o \in Oracles :
          /\ sessionDrawnCount > MaxArtDraws => o.hit = 0
          /\ Commit(processHandResults(Cur, raw, <<0, 0>>, o.hit, o.rev, o.seed))

\* a hand frame with the pointer away from the ring
IdleHandFrame(Labels) ==
    /\ hands
    /\ rawAt # now
    /\ \E raw \in Labels :
          Commit(processHandResults(Cur, raw, <<0, 0>>, 0, FALSE, 0))

\* a result of the vision pipeline with no hand
NoHandFrame ==
    /\ hands
    /\ rawAt # now
    /\ \E o \in Oracles : Commit(processNoHand(Cur, o.hit, o.rev, o.seed))

MouseMove(Ptrs) ==
    /\ phase = "running"
    /\ \E ptr \in Ptrs : Commit(onPointerMove(Cur, ptr))

MouseDown ==
    /\ phase = "running"
    /\ \E button \in {0, 2}, onCard \in BOOLEAN, o \in Oracles :
          Commit(onMouseDown(Cur, button, onCard, o.hit, o.rev, o.seed))

MouseUp ==
    /\ phase = "running"
    /\ \E o \in Oracles : Commit(onMouseUp(Cur, o.hit, o.rev, o.seed))

\* the page calls tarotEngine.showCurrentCardDetail()
ShowCurrentCardDetail ==
    /\ phase = "running"
    /\ Commit(showCurrentCardDetail(Cur))

\* a click on an item of the history list
ShowHistoryItemDetail ==
    /\ phase = "running"
    /\ \E index \in 1..Len(history) : Commit(showHistoryItemDetail(Cur, index))

\* a click on the manifest button, shown and enabled
ManifestClick ==
    /\ dom.modal
    /\ ~dom.manifestHidden
    /\ ~dom.manifestBtn.disabled
    /\ Commit(manifestActiveCard(Cur))

\* the user types an instruction into the prompt input
EditType ==
    /\ dom.modal
    /\ ~dom.editHidden
    /\ Commit([Cur EXCEPT !.dom.editPrompt = TRUE])

\* a click on the edit button, shown and enabled
EditClick ==
    /\ dom.modal
    /\ ~dom.editHidden
    /\ ~dom.editBtn.disabled
    /\ Commit(editActiveCard(Cur))

\* the art service answers an awaited call with an image reference
ArtResolve ==
    \E call \in artCalls, url \in 1..MaxUrl :
        LET e == [Cur EXCEPT !.artCalls = @ \ {call}]
        IN Commit(IF call.kind = "generate" THEN manifestResolved(e, url)
                  ELSE editResolved(e, call, url))

\* the art service rejects an awaited call
ArtReject ==
    \E call \in artCalls :
        LET e == [Cur EXCEPT !.artCalls = @ \ {call}]
        IN Commit(IF call.kind = "generate" THEN manifestRejected(e)
                  ELSE editRejected(e, call))

\* the oldest pending setTimeout callback, once due
TimerFire ==
    /\ timers # <<>>
    /\ now >= Head(timers)
    /\ Commit(disintegrateTimeout([Cur EXCEPT !.timers = Tail(@)]))

\* n consecutive requestAnimationFrame callbacks (cut short once a callback
\* changes nothing any more: the remaining ones change nothing either)
RECURSIVE AnimateTimes(_, _)
AnimateTimes(e, n) ==
    IF n <= 0 THEN e
    ELSE LET e1 == animate(e)
         IN IF e1 = e THEN e ELSE AnimateTimes(e1, n - 1)

\* A stored Date.now() value after the time origin moved forward by `back`
\* ms.  The program only compares stamps with the present, so it behaves the
\* same under a shift of all of them; 0 is its "not started" mark and stays,
\* and a stamp that would leave the range stays at 1, older than every
\* delay the program measures against (ClockMax - 1 >= 80).
Shift(stamp, back) ==
    IF stamp = 0 THEN 0
    ELSE IF stamp - back < 1 THEN 1
    ELSE stamp - back

ShiftAll(e, back) ==
    [e EXCEPT
       !.pinchStartTime = Shift(@, back),
       !.fistStartTime = Shift(@, back),
       !.gestureCooldown = Shift(@, back),
       !.timers = [i \in 1..Len(e.timers) |-> Shift(e.timers[i], back)],
       !.history = [i \in 1..Len(e.history) |->
                       [e.history[i] EXCEPT !.timestamp = Shift(@, back)]],
       !.lastChangeAt = Shift(@, back),
       !.rawAt = Shift(@, back)]

\* the wall clock advances by dt ms while the animation loop runs; a due
\* timer fires before time moves on.  With `wrap`, a clock that would pass
\* ClockMax stays there and the time origin moves instead.
Tick(dt, wrap) ==
    /\ wrap \/ now + dt <= ClockMax
    /\ timers # <<>> => now + dt <= Head(timers)
    /\ LET back == IF now + dt > ClockMax THEN now + dt - ClockMax ELSE 0
           e1 == IF phase = "running" THEN AnimateTimes(Cur, dt \div FrameMs)
                 ELSE Cur
       IN Commit(ShiftAll([e1 EXCEPT !.now = now + dt - back], back))

----------------------------------------------------------------------------
(* Spec: the session in HANDS mode, the clock in steps of half the         *)
(* disintegration delay, so that handlers run while a timer is pending     *)

GameLabels == {"PINCH", "FIST"}

GamePointers == { <<0, 0>> }

Next ==
    \/ InitStart
    \/ InitFinish
    \/ ResetDeck
    \/ ClickCamera
    \/ HandFrame(GameLabels, GamePointers)
    \/ NoHandFrame
    \/ TimerFire
    \/ Tick(DISINTEGRATE_DELAY \div 2, TRUE)

Spec == Init /\ [][Next]_vars

\* the same session with no call of window.resetDeck from outside
NextScenario ==
    \/ InitStart
    \/ InitFinish
    \/ ClickCamera
    \/ HandFrame(GameLabels, GamePointers)
    \/ NoHandFrame
    \/ TimerFire
    \/ Tick(DISINTEGRATE_DELAY \div 2, TRUE)

SpecScenario == Init /\ [][NextScenario]_vars

----------------------------------------------------------------------------
(* SpecStab: the stabilizer on hand frames a few tens of ms apart, up to   *)
(* ClockMax                                                                *)

StabLabels == {"OPEN", "PINCH", "FIST"}

\* the delays between two callbacks, in ms
StabSteps == {25, 40}

NextStab ==
    \/ InitStart
    \/ InitFinish
    \/ ClickCamera
    \/ HandFrame(StabLabels, GamePointers)
    \/ NoHandFrame
    \/ \E dt \in StabSteps : Tick(dt, FALSE)

SpecStab == Init /\ [][NextStab]_vars

----------------------------------------------------------------------------
(* SpecDrop: the session without outside calls, the clock in steps of a    *)
(* quarter of the disintegration delay and the hand either on the screen   *)
(* centre or in a corner, where a grabbed card stays out of the preview    *)
(* capture radius: gestures arrive in every state                          *)

DropPointers == { <<0, 0>>, <<100, 100>> }

NextDrop ==
    \/ InitStart
    \/ InitFinish
    \/ ClickCamera
    \/ HandFrame(GameLabels, DropPointers)
    \/ NoHandFrame
    \/ TimerFire
    \/ Tick(DISINTEGRATE_DELAY \div 4, TRUE)

SpecDrop == Init /\ [][NextDrop]_vars

\* a step of Tick while a timer is pending: the stamps of the pending
\* timers move towards the clock
TimePasses == Len(timers') = Len(timers) /\ timers' # timers

\* the session of SpecDrop with the hand on the screen centre
NextLive ==
    \/ InitStart
    \/ InitFinish
    \/ ClickCamera
    \/ HandFrame(GameLabels, GamePointers)
    \/ NoHandFrame
    \/ TimerFire
    \/ Tick(DISINTEGRATE_DELAY \div 4, TRUE)

\* the browser keeps running: time does not stop short of a pending timer,
\* and a due timer callback is run
SpecLive ==
    /\ Init
    /\ [][NextLive]_vars
    /\ WF_vars(TimerFire)
    /\ \/ []<>(timers = <<>> \/ now >= Head(timers))
       \/ []<><<TimePasses>>_vars

----------------------------------------------------------------------------
(* SpecArt: the session of a hand kept in view, without outside calls,     *)
(* with the detail modal and the art service                               *)

NextArt ==
    \/ InitStart
    \/ InitFinish
    \/ ClickCamera
    \/ ArtHandFrame
    \/ TimerFire
    \/ Tick(DISINTEGRATE_DELAY, TRUE)
    \/ ShowCurrentCardDetail
    \/ ShowHistoryItemDetail
    \/ ManifestClick
    \/ EditType
    \/ EditClick
    \/ ArtResolve
    \/ ArtReject

SpecArt == Init /\ [][NextArt]_vars

\* the session of a user who draws MaxArtDraws + 1 cards one after another,
\* with the detail modal and the art service asked to generate artwork
NextGallery ==
    \/ InitStart
    \/ InitFinish
    \/ ClickCamera
    \/ DrawingHandFrame
    \/ TimerFire
    \/ Tick(DISINTEGRATE_DELAY, TRUE)
    \/ ShowCurrentCardDetail
    \/ ShowHistoryItemDetail
    \/ ManifestClick
    \/ ArtResolve
    \/ ArtReject

SpecGallery == Init /\ [][NextGallery]_vars

----------------------------------------------------------------------------
(* SpecHold: the stabilizer on hand frames a few tens of ms apart, for     *)
(* ever, the hand away from the ring: the camera keeps delivering frames,  *)
(* at most one per millisecond, so that time passes between two of them    *)

NextHold ==
    \/ InitStart
    \/ InitFinish
    \/ ClickCamera
    \/ IdleHandFrame(GameLabels)
    \/ NoHandFrame
    \/ \E dt \in StabSteps : Tick(dt, TRUE)

\* a vision callback runs
FrameArrives == "update" \in ev'

SpecHold ==
    /\ Init
    /\ [][NextHold]_vars
    /\ []<><<FrameArrives>>_vars

----------------------------------------------------------------------------
(* SpecMouse: the session in MOUSE mode, every mousedown followed by its   *)
(* mouseup before the next mousedown; rawLast tells the button held        *)

Press == rawLast = "NONE" /\ MouseDown

Release == rawLast # "NONE" /\ MouseUp

NextMouse ==
    \/ InitStart
    \/ InitFinish
    \/ ClickMouse
    \/ SplashHidden
    \/ MouseMove(DropPointers)
    \/ Press
    \/ Release
    \/ Tick(FIST_REQUIRED_HOLD \div 2, TRUE)

SpecMouse == Init /\ [][NextMouse]_vars

----------------------------------------------------------------------------
(* SpecSwitch: a user who starts with the camera, draws cards by hand and  *)
(* may change to the mouse on the splash screen, with calls of             *)
(* window.resetDeck once the engine runs                                   *)

\* a mouse button pressed in MOUSE mode while a card is shown
MouseClick ==
    /\ inputMode = "MOUSE"
    /\ rawAt # now
    /\ state \in {"PREVIEW", "CONFIRMED"}
    /\ MouseDown

NextSwitch ==
    \/ InitStart
    \/ InitFinish
    \/ (phase = "running" /\ ResetDeck)
    \/ (~hands /\ ClickCamera)
    \/ (hands /\ ClickMouse)
    \/ DrawingHandFrame
    \/ MouseClick
    \/ TimerFire
    \/ Tick(DISINTEGRATE_DELAY \div 2, TRUE)

SpecSwitch == Init /\ [][NextSwitch]_vars

----------------------------------------------------------------------------
(* SpecSafety: resolveConfirmedSafety pass by pass, called with a viewer   *)
(* pose and a near-clip distance drawn from the sets below                 *)

\* the engine's own camera; a camera far in front of the ring, whose first
\* position is clear; a camera facing the ring's far arc, clear after one push
ViewerPoses ==
    { [position |-> cameraPosition, forward |-> cameraForward, up |-> cameraUp],
      [position |-> <<0, 0, 3000>>, forward |-> cameraForward, up |-> cameraUp],
      [position |-> <<0, 0, 2100>>, forward |-> <<0, 0, 1>>, up |-> cameraUp] }

\* the engine's near plane (0.1), and near planes of 3.75 and 4.8
NearPlanes == {cameraNear, 375, 480}

InitSafety ==
    /\ InitEngine
    /\ \E v \in ViewerPoses, near \in NearPlanes :
          rs = ResolveStart(v.position, near, v.forward, v.up)

\* one pass of the while loop
ResolveStep ==
    /\ rs.pc = "loop"
    /\ LoopContinues(rs)
    /\ Commit([Cur EXCEPT !.rs = ResolvePass(rs)])

\* the loop is left and the results are stored
ResolveExit ==
    /\ rs.pc = "loop"
    /\ ~LoopContinues(rs)
    /\ Commit(ResolveReturn([Cur EXCEPT !.rs.pc = "done"], rs))

NextSafety == ResolveStep \/ ResolveExit

\* the loop is straight-line code inside one callback: it keeps running
SpecSafety == InitSafety /\ [][NextSafety]_vars /\ WF_vars(NextSafety)

----------------------------------------------------------------------------
(* Deck, history and drawn count *)

Ids(h) == [i \in 1..Len(h) |-> h[i].id]

Distinct(s) == \A i, j \in 1..Len(s) : i # j => s[i] # s[j]

Confirming == state = "PREVIEW" /\ state' = "CONFIRMED"

\* C1: in every reachable state the drawn count is between 0 and 3
C1_CountBound == sessionDrawnCount >= 0 /\ sessionDrawnCount <= 3

C1_ThreeDrawn == sessionDrawnCount = 3 /\ state = "READY"

\* C2: the drawn count changes only by +1 on a PREVIEW->CONFIRMED step or by
\* a resetDeck; every resetDeck leaves it 0 and nothing else lowers it
C2_CountSteps ==
    [][ /\ sessionDrawnCount' # sessionDrawnCount =>
              \/ "resetDeck" \in ev'
              \/ Confirming /\ sessionDrawnCount' = sessionDrawnCount + 1
        /\ "resetDeck" \in ev' => sessionDrawnCount' = 0
        /\ sessionDrawnCount' < sessionDrawnCount => "resetDeck" \in ev' ]_vars

C2_SecondConfirm ==
    "confirmCard" \in ev /\ state = "CONFIRMED" /\ sessionDrawnCount = 2

\* C3: right after tryGrab the drawn card is not in the deck; a card comes
\* (back) into the deck only when resetDeck runs; the active card is not in
\* the deck while the state is GRABBING, PREVIEW or CONFIRMED
C3_DrawnOutOfDeck ==
    [][ /\ "tryGrab" \in ev' => activeCardData' \notin Range(deck')
        /\ Range(deck') \subseteq Range(deck) \/ "resetDeck" \in ev'
        /\ state' \in {"GRABBING", "PREVIEW", "CONFIRMED"}
              => activeCardData' \notin Range(deck') ]_vars

C3_SecondDrawConfirmed ==
    /\ state = "CONFIRMED"
    /\ Len(history) = 2
    /\ Len(deck) < Len(TAROT_DECK)
    /\ activeCardData \notin Range(deck)

\* C4: each PREVIEW->CONFIRMED step puts the active card at the front of the
\* history and adds nothing else; the history's cards change in no other
\* step but a resetDeck; no card is in the history twice
C4_HistoryOncePerDraw ==
    [][ /\ Confirming => Ids(history') = << activeCardData >> \o Ids(history)
        /\ Ids(history') # Ids(history) => Confirming \/ "resetDeck" \in ev'
        /\ Distinct(Ids(history')) ]_vars

C4_ThirdEntry ==
    "confirmCard" \in ev /\ Len(history) = 3 /\ history[1].id = activeCardData

\* a FIST enter in READY after three draws
FistInReadyAfterThree ==
    /\ "enter" \in ev'
    /\ currentGesture' = "FIST"
    /\ state = "READY"
    /\ sessionDrawnCount = 3

\* C5 (as written): a fresh deck has 32 cards, 29 after three confirmed
\* draws, and the FIST reset brings back 32
C5_Scenario32 ==
    /\ Len(deck) = 32
    /\ [](sessionDrawnCount = 3 =>
            /\ Len(history) = 3
            /\ Len(deck) = 29
            /\ \A i \in 1..2 : history[i].timestamp >= history[i + 1].timestamp)
    /\ [][ FistInReadyAfterThree =>
             /\ "resetDeck" \in ev'
             /\ Len(deck') = 32
             /\ history' = <<>>
             /\ sessionDrawnCount' = 0 ]_vars

\* C5 (the deck of the source has 31 cards): a fresh session has 31 cards;
\* after three confirmed draws the drawn count is 3, the history has 3
\* entries, newest first, and the deck 28 cards; a FIST enter in READY then
\* resets to 31 cards, an empty history and a drawn count of 0
C5_Scenario31 ==
    /\ Len(deck) = 31
    /\ [](sessionDrawnCount = 3 =>
            /\ Len(history) = 3
            /\ Len(deck) = 28
            /\ \A i \in 1..2 : history[i].timestamp >= history[i + 1].timestamp)
    /\ [][ FistInReadyAfterThree =>
             /\ "resetDeck" \in ev'
             /\ Len(deck') = 31
             /\ history' = <<>>
             /\ sessionDrawnCount' = 0 ]_vars

C5_ResetByFist ==
    /\ "resetDeck" \in ev
    /\ "enter" \in ev
    /\ currentGesture = "FIST"
    /\ Len(deck) = 31
    /\ sessionDrawnCount = 0

----------------------------------------------------------------------------
(* Stabilizer *)

\* C6: any two changes of currentGesture are more than 50 ms apart, and an
\* enter event happens only with a change
C6_Cooldown ==
    [][ /\ currentGesture' # currentGesture /\ lastChangeAt # 0
              => now - lastChangeAt > 50
        /\ "enter" \in ev' => currentGesture' # currentGesture ]_vars

\* a change back to NONE: the second change at the earliest
C6_ChangeAfterCooldown ==
    "enter" \in ev /\ currentGesture = "NONE" /\ lastChangeAt = now

\* C7: the current gesture goes from NONE to PINCH, and the state from READY
\* to GRABBING, only when the latest run of raw PINCH labels has lasted 80 ms
C7_ShortPinchNoEnter ==
    [][ /\ currentGesture = "NONE" /\ currentGesture' = "PINCH" => pinchRun' >= 80
        /\ state = "READY" /\ state' = "GRABBING" => pinchRun' >= 80 ]_vars

\* C8: the current gesture goes from NONE to FIST only when the latest run
\* of raw FIST labels has lasted 40 ms
C8_ShortFistNoEnter ==
    [][ currentGesture = "NONE" /\ currentGesture' = "FIST" => fistRun' >= 40 ]_vars

----------------------------------------------------------------------------
(* Safety resolver *)

C10_TerminatesWithinCap ==
    /\ [](rs.pushCount <= 40 /\ rs.passes <= 40)
    /\ <>(rs.pc = "done")

\* a return at the cap, the last pass having pushed
C10_CapReached ==
    rs.pc = "done" /\ rs.pushCount = 40 /\ rs.passes = 40 /\ rs.intersected

\* the first candidate of a resolver frame: the position at the base distance
BaseCandidate(r) ==
    VAdd(VAdd(r.camPos, VScale(r.camForward, baseConfirmDistance)),
         VScale(r.camUp, yOffset))

\* C11: the target position written by resolveConfirmedSafety is never in
\* the forbidden region (within the safety margin of the ring radius around
\* the pivot and inside the horizon band), the engine's own camera included.
C11_PlacementClear ==
    "resolveConfirmedSafety" \in ev
        => ~checkIntersectionWithCarousel(targetPosition)

\* C12: when the candidate at the base distance does not intersect the
\* forbidden region, the resolver reports the base distance, zero pushes and
\* the unsafe flag false.
C12_ClearAtBase ==
    rs.pc = "done" /\ ~checkIntersectionWithCarousel(BaseCandidate(rs))
        => debugInfo = [intersected |-> FALSE, pushCount |-> 0,
                        actualDist |-> baseConfirmDistance]

\* a finished call whose base candidate was clear
C12_ClearAtOnce ==
    /\ rs.pc = "done"
    /\ ~checkIntersectionWithCarousel(BaseCandidate(rs))
    /\ targetPosition = BaseCandidate(rs)

\* C13: when the search exhausts the cap of 40 pushes while the candidate
\* is still unsafe, the resolver reports the floor distance (near-clip + 0.8)
\* and the unsafe flag, and raises no error.
C13_CapGivesFloor ==
    "resolveConfirmedSafety" \in ev /\ debugInfo.pushCount = MAX_PUSH
        => /\ debugInfo.actualDist = cameraNear + nearMargin
           /\ debugInfo.intersected
           /\ "TypeError" \notin ev

----------------------------------------------------------------------------
(* Transitions of the interaction state machine *)

\* the edges of the state machine other than an explicit reset
StateEdges ==
    { <<"IDLE", "READY">>, <<"READY", "GRABBING">>, <<"GRABBING", "PREVIEW">>,
      <<"PREVIEW", "CONFIRMED">>, <<"CONFIRMED", "DISINTEGRATING">>,
      <<"DISINTEGRATING", "READY">> }

\* C14: every change of the state follows one of the six edges or is the
\* step of an explicit reset to READY; the delayed callback of
\* triggerDisintegrate changes the state only if it is still DISINTEGRATING.
C14_EdgesOnly ==
    [][ state' # state
          => \/ <<state, state'>> \in StateEdges
             \/ "resetDeck" \in ev' /\ state' = "READY" ]_vars

\* C15: the state goes from READY to GRABBING only at a PINCH enter event
\* received in READY with the drawn count below 3 and a ring card hit; the
\* step removes exactly that card from the deck and makes it the active card.
C15_GrabOnlyByPinch ==
    [][ state = "READY" /\ state' = "GRABBING"
          => /\ "enter" \in ev'
             /\ currentGesture' = "PINCH"
             /\ sessionDrawnCount < MAX_DRAW_PER_SESSION
             /\ activeCardData' \in Range(cardRing)
             /\ activeCardData' \in Range(deck)
             /\ deck' = SelectSeq(deck, LAMBDA c : c # activeCardData')
             /\ Len(deck') = Len(deck) - 1 ]_vars

\* the third grab of a session
C15_ThirdGrab ==
    /\ state = "GRABBING"
    /\ {"enter", "tryGrab"} \subseteq ev
    /\ sessionDrawnCount = 2
    /\ activeCardData \notin Range(deck)

\* the session data the state machine owns
Session ==
    << state, deck, activeCardData, isReversed, sessionDrawnCount, history >>

\* C16: a FIST enter event received in READY with drawn count >= 3 resets
\* the session (full deck, empty history, drawn count 0, state READY); a
\* FIST enter in READY with drawn count < 3 performs no reset.
C16_FistReset ==
    [][ "enter" \in ev' /\ currentGesture' = "FIST" /\ state = "READY"
          => IF sessionDrawnCount >= MAX_DRAW_PER_SESSION
             THEN /\ "resetDeck" \in ev'
                  /\ Range(deck') = Range(TAROT_DECK)
                  /\ Len(deck') = Len(TAROT_DECK)
                  /\ history' = <<>>
                  /\ sessionDrawnCount' = 0
                  /\ state' = "READY"
             ELSE /\ "resetDeck" \notin ev'
                  /\ UNCHANGED << deck, sessionDrawnCount, history >> ]_vars

\* a session reset by FIST right after three confirmed draws
C16_ResetAfterThree ==
    /\ {"enter", "resetDeck"} \subseteq ev
    /\ currentGesture = "FIST"
    /\ state = "READY"
    /\ history = <<>>
    /\ Range(deck) = Range(TAROT_DECK)
    /\ timers = <<>>

\* C17: an invalid transition attempt is dropped: a PINCH enter in READY
\* that grabs nothing (no hit, or quota exhausted), a PINCH enter outside
\* READY, a FIST enter in IDLE, GRABBING or DISINTEGRATING and a FIST enter
\* in READY with drawn count < 3 leave state, deck, active card, orientation
\* flag, drawn count and history unchanged and raise no error.
C17_InvalidDropped ==
    [][ /\ "enter" \in ev'
        /\ \/ /\ currentGesture' = "PINCH"
              /\ state = "READY"
              /\ \/ sessionDrawnCount >= MAX_DRAW_PER_SESSION
                 \/ "tryGrab" \notin ev'
           \/ currentGesture' = "PINCH" /\ state # "READY"
           \/ /\ currentGesture' = "FIST"
              /\ state \in {"IDLE", "GRABBING", "DISINTEGRATING"}
           \/ /\ currentGesture' = "FIST"
              /\ state = "READY"
              /\ sessionDrawnCount < MAX_DRAW_PER_SESSION
        => UNCHANGED Session /\ "TypeError" \notin ev' ]_vars

\* a FIST enter dropped while the card is grabbed
C17_FistWhileGrabbing ==
    /\ "enter" \in ev
    /\ currentGesture = "FIST"
    /\ state = "GRABBING"

\* C18: the orientation flag changes only when a card is drawn (tryGrab, in
\* READY); a history entry is created with the flag of the active card and
\* keeps its card and flag as long as it exists.
C18_OrientationFixed ==
    [][ /\ isReversed' # isReversed => "tryGrab" \in ev' /\ state = "READY"
        /\ "confirmCard" \in ev'
              => /\ Len(history') = Len(history) + 1
                 /\ history'[1].id = activeCardData
                 /\ history'[1].isReversed = isReversed
        /\ history' # <<>> /\ "resetDeck" \notin ev'
              => /\ Len(history') >= Len(history)
                 /\ \A i \in 1..Len(history) :
                       LET j == Len(history') - Len(history) + i
                       IN /\ history'[j].id = history[i].id
                          /\ history'[j].isReversed = history[i].isReversed
      ]_vars

\* a reversed card recorded on top of an upright one
C18_MixedHistory ==
    /\ "confirmCard" \in ev
    /\ Len(history) >= 2
    /\ history[1].isReversed
    /\ ~history[2].isReversed

----------------------------------------------------------------------------
(* Artwork *)

\* C20: when generateCardArt or editCardArt rejects, every card keeps its
\* artwork reference, the state, deck, active card, drawn count and history
\* are unchanged, and the button of the failed operation is enabled again.
C20_ArtFailure ==
    [][ "manifestRejected" \in ev' \/ "editRejected" \in ev'
          => /\ art' = art
             /\ UNCHANGED Session
             /\ "manifestRejected" \in ev' => ~dom'.manifestBtn.disabled
             /\ "editRejected" \in ev' => ~dom'.editBtn.disabled ]_vars

\* an edit of generated artwork has just failed while the card is confirmed
C20_EditFailed ==
    /\ "editRejected" \in ev
    /\ state = "CONFIRMED"
    /\ currentDetailCard \in DOMAIN art
    /\ art[currentDetailCard] # NoUrl
    /\ ~dom.editBtn.disabled

\* C21: artwork the art service returns for a request issued for card X is
\* stored only on card X and on X's history snapshot: no other card and no
\* other history entry has its artwork reference changed by the answer.
C21_ArtOnRequestedCard ==
    [][ \A call \in artCalls \ artCalls' :
          "manifestResolved" \in ev' \/ "editResolved" \in ev'
            => /\ \A c \in DOMAIN art' :
                    c # call.card => c \in DOMAIN art /\ art'[c] = art[c]
               /\ \A i \in 1..Len(history') :
                    history'[i].id # call.card => history'[i].url = history[i].url
      ]_vars

----------------------------------------------------------------------------
(* Invariants of the session data *)

\* C22: in every reachable state the deck length plus the drawn count plus
\* one for a card in hand (state GRABBING or PREVIEW) is the size of the
\* full card set.
C22_DeckAccounting ==
    Len(deck) + sessionDrawnCount
        + (IF state \in {"GRABBING", "PREVIEW"} THEN 1 ELSE 0) = Len(TAROT_DECK)

\* C23: in every reachable state the history has as many entries as the
\* drawn count says, and so never more than 3.
C23_HistoryIsCount ==
    Len(history) = sessionDrawnCount /\ Len(history) <= MAX_DRAW_PER_SESSION

\* three entries, the session's quota
C23_FullHistory ==
    Len(history) = MAX_DRAW_PER_SESSION /\ "confirmCard" \in ev

\* C24: whenever the state is IDLE, READY or DISINTEGRATING there is no
\* live card object.
C24_NoMeshWithoutCard ==
    state \in {"IDLE", "READY", "DISINTEGRATING"} => currentCardMesh = NoMesh

\* C25: whenever the state is GRABBING, PREVIEW or CONFIRMED the active
\* card record and the live card object are both there, and no handler
\* fails on a null card.
C25_CardInHand ==
    /\ state \in {"GRABBING", "PREVIEW", "CONFIRMED"}
          => activeCardData # NoCard /\ currentCardMesh # NoMesh
    /\ "TypeError" \notin ev

\* the card in hand is clicked with the left button in MOUSE mode
C25_CardClicked ==
    /\ inputMode = "MOUSE"
    /\ "showCurrentCardDetail" \in ev
    /\ state = "CONFIRMED"
    /\ sessionDrawnCount = 2
    /\ currentCardMesh # NoMesh

----------------------------------------------------------------------------
(* Mouse input *)

\* C26: in MOUSE mode, with every mousedown followed by its mouseup, a
\* left-button press held for at least 80 ms produces a PINCH enter and a
\* right-button press held for at least 40 ms a FIST enter: when such a
\* press is released, the current gesture is the one of the button.
C26_HeldPressEnters ==
    [][ inputMode = "MOUSE" /\ "update" \in ev' /\ rawLast' = "NONE"
          => /\ rawLast = "PINCH" /\ now - rawAt >= PINCH_REQUIRED_HOLD
                  => currentGesture = "PINCH"
             /\ rawLast = "FIST" /\ now - rawAt >= FIST_REQUIRED_HOLD
                  => currentGesture = "FIST" ]_vars

----------------------------------------------------------------------------
(* Enter and hold events *)

\* C27: an enter event fires only with a change of the current gesture, and
\* with every change, so each enter carries another gesture than the one
\* before; a hold event fires on every update.  The FIST enter that confirms
\* a card and the FIST enter that lets it disintegrate are two enters: the
\* current gesture is not FIST just before either of them.
C27_EnterOncePerChange ==
    [][ /\ "enter" \in ev' <=> currentGesture' # currentGesture
        /\ "update" \in ev' => "hold" \in ev'
        /\ state = "PREVIEW" /\ state' = "CONFIRMED"
              => "enter" \in ev' /\ currentGesture # "FIST" /\ currentGesture' = "FIST"
        /\ state = "CONFIRMED" /\ state' = "DISINTEGRATING"
              => "enter" \in ev' /\ currentGesture # "FIST" /\ currentGesture' = "FIST"
      ]_vars

\* the second FIST enter of a draw
C27_SecondFist ==
    /\ {"enter", "triggerDisintegrate", "hold"} \subseteq ev
    /\ currentGesture = "FIST"
    /\ state = "DISINTEGRATING"

----------------------------------------------------------------------------
(* Order of bookkeeping and presentation *)

\* C28: in a draw (tryGrab), a confirmation (confirmCard) and a reset
\* (resetDeck), every rendering or UI routine runs after the state, the deck,
\* the active card and the drawn count have their final values.
C28_BookkeepingFirst ==
    [][ "tryGrab" \in ev' \/ "confirmCard" \in ev' \/ "resetDeck" \in ev'
          => \A n \in notified' :
                /\ n.state = state'
                /\ n.deck = deck'
                /\ n.activeCardData = activeCardData'
                /\ n.sessionDrawnCount = sessionDrawnCount' ]_vars

----------------------------------------------------------------------------
(* Sustained gestures *)

\* C29: in HANDS mode, if from some frame on every update carries PINCH
\* (respectively FIST) while frames keep arriving and time passes, the
\* current gesture becomes PINCH (respectively FIST), by an enter event, and
\* stays.
C29_SustainedGestureEnters ==
    /\ <>[](pinchStartTime # 0) => <>[](currentGesture = "PINCH")
    /\ <>[](fistStartTime # 0) => <>[](currentGesture = "FIST")
    /\ [][ currentGesture' # currentGesture /\ currentGesture' \in {"PINCH", "FIST"}
             => "enter" \in ev' ]_vars

\* a FIST sustained through the hold and the cooldown of an earlier change
C29_FistAfterCooldown ==
    /\ "enter" \in ev
    /\ currentGesture = "FIST"
    /\ gestureBuffer = <<"FIST", "FIST", "FIST", "FIST">>
    /\ now - fistStartTime >= FIST_REQUIRED_HOLD
    /\ lastChangeAt = now

----------------------------------------------------------------------------
(* Reported placement distance *)

\* the candidate position at distance dist along the viewer's forward axis
CandidateAt(camPos, camForward, camUp, dist) ==
    VAdd(VAdd(camPos, VScale(camForward, dist)), VScale(camUp, yOffset))

\* C30: after resolveConfirmedSafety returns, the target position it wrote
\* is the candidate at the distance it reports (debugInfo.actualDist), for
\* the engine's camera and for every viewer pose of a resolver frame.
C30_ReportedDistanceIsUsed ==
    /\ "resolveConfirmedSafety" \in ev
          => targetPosition = CandidateAt(cameraPosition, cameraForward, cameraUp,
                                          debugInfo.actualDist)
    /\ rs.pc = "done"
          => targetPosition = CandidateAt(rs.camPos, rs.camForward, rs.camUp,
                                          debugInfo.actualDist)

\* a sequence of distinct cards, all of them cards of TAROT_DECK
DuplicateFreeSubset(d) ==
    /\ Range(d) \subseteq Range(TAROT_DECK)
    /\ Cardinality(Range(d)) = Len(d)

\* C31: the deck is always a duplicate-free subset of the full card set;
\* a successful draw takes exactly the drawn card out of it, the deck gets
\* shorter only by a draw, and it gets longer only by resetDeck, which
\* leaves a permutation of the full card set.
C31_DeckDiscipline ==
    /\ DuplicateFreeSubset(deck)
    /\ [][ /\ DuplicateFreeSubset(deck')
           /\ "tryGrab" \in ev' =>
                 /\ Len(deck') = Len(deck) - 1
                 /\ activeCardData' \in Range(deck)
                 /\ deck' = SelectSeq(deck, LAMBDA c : c # activeCardData')
           /\ Len(deck') < Len(deck) => "tryGrab" \in ev'
           /\ Len(deck') > Len(deck) => "resetDeck" \in ev'
           /\ "resetDeck" \in ev' =>
                 /\ Len(deck') = Len(TAROT_DECK)
                 /\ Range(deck') = Range(TAROT_DECK) ]_vars

\* a reset has refilled the deck after a card was drawn from it
C31_RefilledAfterDraw ==
    /\ "resetDeck" \in ev
    /\ activeCardData # NoCard
    /\ Len(deck) = Len(TAROT_DECK)

\* the entry as it was recorded: card, orientation, and the time of the
\* confirmation counted from a time origin that moved `back` ms since
Recorded(h, back) ==
    [id |-> h.id, isReversed |-> h.isReversed, timestamp |-> Shift(h.timestamp, back)]

\* C32: the history is ordered most recent first, and between resets it only
\* grows at the front: a confirmation puts its entry at index 0, and every
\* step other than a resetDeck keeps the entries it found, in their order,
\* behind it.
C32_HistoryAppendOnly ==
    /\ [](\A i, j \in 1..Len(history) :
             i < j => history[i].timestamp >= history[j].timestamp)
    /\ [][ \/ "resetDeck" \in ev' /\ history' = <<>>
           \/ LET grown == Len(history') - Len(history)
              IN /\ grown = (IF "confirmCard" \in ev' THEN 1 ELSE 0)
                 /\ \E back \in 0..ClockMax :
                       \A k \in 1..Len(history) :
                          Recorded(history'[k + grown], 0) = Recorded(history[k], back)
                 /\ grown = 1 =>
                       Recorded(history'[1], 0) =
                          [id |-> activeCardData', isReversed |-> isReversed',
                           timestamp |-> now'] ]_vars

\* a second confirmation, later than the first, has just been recorded
C32_SecondEntryInFront ==
    /\ "confirmCard" \in ev
    /\ Len(history) = 2
    /\ history[1].timestamp > history[2].timestamp
    /\ history[1].id # history[2].id

\* SpecBuffer: a hand that never reaches the ring, classified as OPEN, PINCH
\* or FIST by frames that arrive up to five in one cooldown
NextBuffer ==
    \/ InitStart
    \/ InitFinish
    \/ ClickCamera
    \/ IdleHandFrame(StabLabels)
    \/ Tick(GESTURE_COOLDOWN \div 5, FALSE)

SpecBuffer == Init /\ [][NextBuffer]_vars

\* label g occurs in the buffer at least as often as every other label
Majority(buf, g) == \A l \in Gesture : Count(buf, g) >= Count(buf, l)

\* C33: the gesture buffer never holds more than 4 labels; a step changes it
\* only by appending the raw label of the frame behind the labels it held,
\* the oldest one leaving when that would make five; and the candidate
\* getStableGesture returns for it, which is the gesture a hand frame may
\* switch to unless a hold is pending, is a label with the most occurrences
\* in the buffer.
C33_RollingMajority ==
    /\ [](/\ Len(gestureBuffer) <= BUFFER_SIZE
          /\ gestureBuffer # <<>> =>
                Majority(gestureBuffer, getStableGesture(gestureBuffer)))
    /\ [][ LET rolled == (IF Len(gestureBuffer) < BUFFER_SIZE THEN gestureBuffer
                           ELSE Tail(gestureBuffer)) \o << rawLast' >>
           IN /\ gestureBuffer' = gestureBuffer \/ gestureBuffer' = rolled
              /\ "update" \in ev' /\ rawLast' # "NONE" => gestureBuffer' = rolled
              /\ gestureBuffer' # gestureBuffer /\ currentGesture' # currentGesture =>
                    \/ currentGesture' = "NONE"
                    \/ Majority(gestureBuffer', currentGesture') ]_vars

\* the buffer is full, the OPEN label that made OPEN the current gesture
\* has left it again, and the newest label does not have the majority
C33_OpenEvicted ==
    /\ Len(gestureBuffer) = BUFFER_SIZE
    /\ currentGesture = "OPEN"
    /\ "OPEN" \notin Range(gestureBuffer)
    /\ ~Majority(gestureBuffer, gestureBuffer[BUFFER_SIZE])

----------------------------------------------------------------------------
(* SpecClassify: frames that come with landmarks.  The wrist and the       *)
(* knuckles are fixed; each fingertip is stretched out, curled to between  *)
(* the two joints, or folded onto the palm; the thumb tip is away from the *)
(* hand or at one of three places near the index finger.  No two distances *)
(* that are compared are equal or within rounding of each other.           *)

LandmarkIds == {0, 4, 5, 6, 8, 9, 10, 12, 13, 14, 16, 17, 18, 20}

TipChoices(x) == { <<x, 300>>, <<x, 520>>, <<x, 700>> }

ThumbChoices == { <<150, 600>>, <<400, 470>>, <<400, 739>>, <<400, 741>> }

Hand(index, middle, ring, pinky, thumb) ==
    [ i \in LandmarkIds |->
        CASE i = 0 -> <<500, 900>>
          [] i = 4 -> thumb
          [] i = 5 -> <<400, 600>>
          [] i = 6 -> <<400, 500>>
          [] i = 8 -> index
          [] i = 9 -> <<500, 600>>
          [] i = 10 -> <<500, 500>>
          [] i = 12 -> middle
          [] i = 13 -> <<600, 600>>
          [] i = 14 -> <<600, 500>>
          [] i = 16 -> ring
          [] i = 17 -> <<700, 620>>
          [] i = 18 -> <<700, 540>>
          [] i = 20 -> pinky ]

HandPoses ==
    { Hand(index, middle, ring, pinky, thumb) :
        index \in TipChoices(400), middle \in TipChoices(500),
        ring \in TipChoices(600), pinky \in TipChoices(700),
        thumb \in ThumbChoices }

\* hands.onResults with one hand that stays off the ring
LandmarkFrame ==
    /\ hands
    /\ rawAt # now
    /\ \E lm \in HandPoses : Commit(processLandmarks(Cur, lm, 0, FALSE, 0))

NextClassify ==
    \/ InitStart
    \/ InitFinish
    \/ ClickCamera
    \/ LandmarkFrame
    \/ Tick(GESTURE_COOLDOWN, FALSE)

SpecClassify == Init /\ [][NextClassify]_vars

\* C34: the label of a frame follows the rules in priority order: FIST iff
\* the index finger is folded and at least two of middle, ring and pinky
\* are; otherwise PINCH iff the thumb tip is nearer than 0.22 to the index
\* tip and the index finger is not folded; otherwise OPEN iff at least
\* three of the four fingers are extended; otherwise NONE.  PINCH is never
\* the label of a frame with a folded index finger, and POINT is never a
\* label.
C34_ClassifierPriority ==
    landmarks # NoLandmarks =>
       LET indexFolded == isFingerFolded(landmarks, 8, 5)
           fist == indexFolded /\ FoldedOthers(landmarks) >= 2
           pinch == /\ ~fist
                    /\ PlanarSq(landmarks[4], landmarks[8]) < 220 * 220
                    /\ ~indexFolded
           open == ~fist /\ ~pinch /\ extendedFingers(landmarks) >= 3
       IN /\ rawLast = "FIST" <=> fist
          /\ rawLast = "PINCH" <=> pinch
          /\ rawLast = "OPEN" <=> open
          /\ rawLast = "NONE" <=> ~fist /\ ~pinch /\ ~open
          /\ rawLast = "PINCH" => ~indexFolded
          /\ rawLast # "POINT"

\* a frame with the thumb tip on a folded index finger and the other
\* fingers stretched out was labelled OPEN
C34_ThumbOnFoldedIndex ==
    /\ landmarks # NoLandmarks
    /\ isFingerFolded(landmarks, 8, 5)
    /\ PlanarSq(landmarks[4], landmarks[8]) < 220 * 220
    /\ rawLast = "OPEN"
    /\ "update" \in ev

\* C35: in HANDS mode a vision callback with no hand is handled as gesture
\* NONE without an error: it goes to the gesture update as NONE (the hold
\* timers are cleared and the gesture stays or becomes NONE), it leaves the
\* gesture buffer as it is, and the state, the deck, the drawn count and the
\* history are the same after it.
C35_NoHandIsNone ==
    [][ "noHand" \in ev' =>
           /\ "update" \in ev' /\ "TypeError" \notin ev'
           /\ pinchStartTime' = 0 /\ fistStartTime' = 0
           /\ currentGesture' \in {currentGesture, "NONE"}
           /\ "enter" \in ev' => currentGesture' = "NONE"
           /\ gestureBuffer' = gestureBuffer
           /\ state' = state /\ deck' = deck
           /\ sessionDrawnCount' = sessionDrawnCount /\ history' = history ]_vars

\* the hand left the picture while it held a card in preview: the gesture
\* went to NONE, the card is still in preview
C35_HandLostInPreview ==
    /\ "noHand" \in ev
    /\ "enter" \in ev
    /\ state = "PREVIEW"
    /\ gestureBuffer # <<>>

----------------------------------------------------------------------------
(* SpecModes: the camera runs, the user draws cards by hand and may switch *)
(* to the mouse at any moment; vision callbacks and mouse events both keep *)
(* arriving whatever the mode, the mouse resting on the screen centre.     *)
(* The event that a step delivered is noted.                               *)

\* hands.onResults, with a hand or without
VisionEvent ==
    /\ hands
    /\ inputMode = "HANDS" => rawAt # now
    /\ \E o \in Oracles :
          /\ sessionDrawnCount > MaxArtDraws => o.hit = 0
          /\ \/ \E raw \in DrawingLabels :
                   Commit(Note(processHandResults(Cur, raw, <<0, 0>>, o.hit, o.rev, o.seed),
                               "onResults"))
             \/ Commit(Note(processNoHand(Cur, o.hit, o.rev, o.seed), "onResults"))

\* the window's mousemove, mousedown and mouseup listeners; the user who
\* took the mouse presses and releases in turn
PointerEvent ==
    /\ phase = "running"
    /\ inputMode = "MOUSE" => rawAt # now
    /\ \E o \in Oracles :
          \/ \E ptr \in GamePointers : Commit(Note(onPointerMove(Cur, ptr), "mousemove"))
          \/ /\ inputMode = "MOUSE" => rawLast = "NONE"
             /\ \E button \in {0, 2}, onCard \in BOOLEAN :
                   Commit(Note(onMouseDown(Cur, button, onCard, o.hit, o.rev, o.seed),
                               "mousedown"))
          \/ /\ inputMode = "MOUSE" => rawLast # "NONE"
             /\ Commit(Note(onMouseUp(Cur, o.hit, o.rev, o.seed), "mouseup"))

NextModes ==
    \/ InitStart
    \/ InitFinish
    \/ (~hands /\ ClickCamera)
    \/ (hands /\ ClickMouse)
    \/ VisionEvent
    \/ PointerEvent
    \/ TimerFire
    \/ Tick(DISINTEGRATE_DELAY \div 2, TRUE)

SpecModes == Init /\ [][NextModes]_vars

\* what the gesture pipeline, the pointer and the interaction consist of
Interaction ==
    << currentGesture, gestureBuffer, gestureCooldown, pinchStartTime, fistStartTime,
       mouse, state, deck, history, sessionDrawnCount, activeCardData, isReversed,
       currentCardMesh, targetPosition, timers, currentDetailCard, inputMode >>

\* C36: only the selected input mode is heard: in MOUSE mode a vision
\* callback, and in HANDS mode a mousemove, mousedown or mouseup event,
\* changes nothing of the gesture, the pointer and the interaction state.
C36_SelectedModeOnly ==
    [][ \/ inputMode = "MOUSE" /\ "onResults" \in ev'
        \/ inputMode = "HANDS" /\ ev' \cap {"mousemove", "mousedown", "mouseup"} # {}
        => /\ UNCHANGED Interaction
           /\ ev' \cap {"update", "enter", "hold", "TypeError"} = {} ]_vars

\* a vision callback arrived in MOUSE mode while a card drawn by hand was
\* in preview
C36_VisionWhileMouse ==
    /\ inputMode = "MOUSE"
    /\ "onResults" \in ev
    /\ state = "PREVIEW"
    /\ currentGesture = "PINCH"

----------------------------------------------------------------------------
(* SpecAudio: the music button, the fade interval, the promise of play()   *)
(* and the error events of the audio element                               *)

\* window.toggleMusic(); a play() still awaited has settled before the user
\* starts the music again
ToggleMusic ==
    /\ audio.isPlaying \/ ~audio.playAwaited
    /\ Commit(Note(toggleMusic(Cur), "toggleMusic"))

FadeTick ==
    /\ audio.fadeInterval.on
    /\ Commit(fadeTick(Cur))

PlayResolved ==
    /\ audio.playAwaited
    /\ audio.network = "ready"
    /\ Commit(playResolved(Cur))

PlayRejected ==
    /\ audio.playAwaited
    /\ Commit(playRejected(Cur))

\* the element has enough of the source in src
LoadOk ==
    /\ audio.network = "loading"
    /\ Commit([Cur EXCEPT !.audio.network = "ready"])

\* the element's error event: the source in src failed, loading or later
LoadError ==
    /\ audio.network \in {"loading", "ready"}
    /\ Commit(Note(handleLoadError(Cur), "handleLoadError"))

NextAudio ==
    \/ InitStart
    \/ InitFinish
    \/ ClickMouse
    \/ ToggleMusic
    \/ FadeTick
    \/ PlayResolved
    \/ PlayRejected
    \/ LoadOk
    \/ LoadError

SpecAudio == Init /\ [][NextAudio]_vars

\* C37: toggle() returns the playing state that results from the toggle:
\* false when it was called while playing, true when it was called while
\* stopped; the music button shows the value returned.
C37_ToggleReturnsResult ==
    [][ "toggleMusic" \in ev' =>
           /\ audio.isPlaying => ~musicBtn'
           /\ ~audio.isPlaying => musicBtn' ]_vars

\* C38: the source fallback is a bounded retry: the sources are loaded in
\* list order, each at most once, an error event moving on to the next one;
\* currentSourceIndex never decreases; and once every source has failed no
\* load is started any more.
C38_BoundedFallback ==
    /\ [](/\ audio.currentSourceIndex <= Len(SOURCES)
          /\ \A i \in 1..Len(SOURCES) :
                /\ audio.loads[i] <= 1
                /\ audio.loads[i] = 1 <=> i - 1 <= audio.currentSourceIndex)
    /\ [][ /\ audio'.currentSourceIndex >= audio.currentSourceIndex
           /\ "handleLoadError" \in ev' =>
                 /\ audio'.currentSourceIndex = audio.currentSourceIndex + 1
                 /\ audio'.currentSourceIndex < Len(SOURCES) =>
                       /\ audio'.src = audio'.currentSourceIndex
                       /\ audio'.network = "loading"
           /\ audio.currentSourceIndex >= Len(SOURCES) =>
                 /\ audio'.loads = audio.loads
                 /\ audio'.src = audio.src
                 /\ audio'.network = "failed" ]_vars

\* every source has failed and the music button was used afterwards
C38_ToggleAfterAllFailed ==
    /\ audio.currentSourceIndex = Len(SOURCES)
    /\ audio.network = "failed"
    /\ "toggleMusic" \in ev

====
